---- MODULE Spec2Model ----
(***************************************************************************)
(* Model of mautrix_twitter/user.py: the User class (the per-account       *)
(* session), its two process-wide caches by_mxid / by_twid, and the        *)
(* coroutines that look sessions up and connect, stop and log them out.    *)
(*                                                                         *)
(* asyncio runs the coroutines cooperatively on one event loop: a          *)
(* coroutine runs without interruption from one await to the next.  Each   *)
(* action below is one such run of one task, and `pc` names the await the  *)
(* task is suspended at.  A database statement or a remote request is      *)
(* executed in the step that issues it; what the awaiting task does with   *)
(* the answer happens in the later step that resumes it.  A SELECT always  *)
(* answers; an UPDATE, a remote request and Puppet.switch_mxid can fail.    *)
(*                                                                         *)
(* DBUser (the "user" table), Puppet, Portal and the TwitterAPI client     *)
(* are not part of user.py; they are modelled at the interface user.py     *)
(* uses.  Portal.create_matrix_room takes effect when it returns (the room *)
(* exists once the homeserver has answered); the calls on a Portal always  *)
(* return.                                                                 *)
(*                                                                         *)
(* Three specifications share the variables: Spec (lookups and the         *)
(* lifecycle of sessions), SpecStartup (init_cls and the try_connect       *)
(* coroutines it returns) and SpecDispatch (handle_message on a connected  *)
(* session).                                                               *)
(***************************************************************************)
EXTENDS Integers, FiniteSets, Sequences, Bags, TLC

\* Python's None, for ids, tokens and cursors alike (all are falsy in the
\* `if self.client`, `if not self.twid`, `a or b` tests of the source).
None == 0

\* Bound on the number of coroutine calls and client poll rounds started in
\* one behaviour.
MaxCalls == 3

Mxids == {1, 2}          \* local ids (UserID)
Twids == {555, 777}      \* remote account ids
Tokens == {1, 2}         \* valid credential values issued by the remote service
Convs == {1, 2}          \* remote conversation ids
Reqs == {1, 2}           \* request ids of message events
Slots == {"a", "b"}      \* one per coroutine that can be in flight at a time

\* The remote account a token authenticates as (the remote service decides).
AccountOf(tok) == IF tok = 1 THEN 555 ELSE 777

\* TwitterAPI.get_user_identifier succeeds only for a credential pair the
\* remote service issued.
TokensValid(auth, csrf) == auth \in Tokens /\ csrf = auth

VARIABLES
    users,      \* the User objects of the process, by object id (1..Len)
    by_mxid,    \* User.by_mxid: mxid -> object id or None
    by_twid,    \* User.by_twid: twid -> object id or None
    db,         \* the "user" table: mxid -> row
    clients,    \* the TwitterAPI objects installed on a User, by handle id
    puppets,    \* twid -> whether its Puppet is_real_user
    tasks,      \* the coroutines in flight (a bag), each suspended at an await
    last,       \* the outcome of the coroutine that finished last
    calls,      \* number of coroutine calls and poll rounds started so far
    hist,       \* history per object (see NewHist)
    ever_bound, \* history: twids bound by a connect that completed
    portals,    \* the Portal of each conversation (see NewPortal)
    boot        \* objects whose try_connect coroutine init_cls has handed out
                \* and the bridge has not started yet

vars == <<users, by_mxid, by_twid, db, clients, puppets, tasks, last, calls,
          hist, ever_bound, portals, boot>>

\* ---------------------------------------------------------------- records

\* A row of the "user" table (DBUser's columns; notice_room is not used here).
Row(twid, auth, csrf, cursor) ==
    [exists |-> TRUE, twid |-> twid, auth_token |-> auth, csrf_token |-> csrf,
     poll_cursor |-> cursor]

NoRow ==
    [exists |-> FALSE, twid |-> None, auth_token |-> None, csrf_token |-> None,
     poll_cursor |-> None]

\* User.__init__: the columns, and client = None, username = None.
NewUser(mxid, row) ==
    [mxid |-> mxid, twid |-> row.twid, auth_token |-> row.auth_token,
     csrf_token |-> row.csrf_token, poll_cursor |-> row.poll_cursor,
     client |-> None, username |-> None]

\* History kept per object, read only by the properties:
\*   returned  get_by_mxid has returned the object
\*   cleared   logout cleared the credentials and none were set since
NewHist(returned) == [returned |-> returned, cleared |-> FALSE]

EventKinds ==
    {"Conversation", "TwitterUser", "MessageEntry", "ReactionCreateEntry",
     "ReactionDeleteEntry"}

\* A Portal as Portal.get_by_twid resolves or creates it: no Matrix room yet.
\*   mxid     the room it is bridged to (the number of the room), or None
\*   rooms    how many rooms create_matrix_room has made for it
\*   handled  how often handle_twitter_message was called, per request id
NewPortal == [mxid |-> None, rooms |-> 0, handled |-> [q \in Reqs |-> 0]]

\* A TwitterAPI object as connect builds it (lines 91-94) and wires it (100-104).
NewClient(auth, csrf, cursor) ==
    [auth_token |-> auth, csrf_token |-> csrf, poll_cursor |-> cursor,
     handlers |-> EventKinds, status |-> "new"]

\* A coroutine suspended at the await `pc` names, with the locals it resumes
\* with.  try marks a connect that try_connect called; conv and req are the
\* conversation id and the request id of the event a handler was called with.
Task(op, pc) ==
    [op |-> op, pc |-> pc, self |-> None, mxid |-> None, twid |-> None,
     create |-> FALSE, row |-> NoRow, rows |-> [m \in Mxids |-> NoRow],
     auth |-> None, csrf |-> None, cursor |-> None, client |-> None,
     ok |-> TRUE, try |-> FALSE, conv |-> None, req |-> None]

Running == BagToSet(tasks)

Free == BagCardinality(tasks) < Cardinality(Slots) /\ calls < MaxCalls

\* The outcome of a finished coroutine: what it returned (ret: an object id,
\* rets: a set of them) or the exception it raised (err).
Outcome(op, self, ret, err) ==
    [op |-> op, self |-> self, ret |-> ret, rets |-> {}, err |-> err]

Start(k) ==
    /\ tasks' = tasks (+) SetToBag({k})
    /\ calls' = calls + 1
    /\ UNCHANGED last

Return(op, self, ret) ==
    /\ calls' = calls + 1
    /\ last' = Outcome(op, self, ret, "")
    /\ UNCHANGED tasks

Suspend(k, k2) ==
    /\ tasks' = (tasks (-) SetToBag({k})) (+) SetToBag({k2})
    /\ UNCHANGED <<last, calls>>

\* A try_connect without its except clause: the exception of connect leaves it.
CaughtNothing(k, outcome) == outcome

\* try_connect, lines 83-87: when connect was called by try_connect (k.try),
\* its exception is logged and swallowed, and try_connect returns None.
Caught(k, outcome) ==
    IF k.try THEN Outcome("try_connect", outcome.self, None, "") ELSE outcome

Finish(k, outcome) ==
    /\ tasks' = tasks (-) SetToBag({k})
    /\ last' = Caught(k, outcome)
    /\ UNCHANGED calls

ObjIds == 1..Len(users)

\* ------------------------------------------------------------------- Init

\* The process starts with empty caches and no User objects; the table holds
\* what earlier runs of the bridge persisted: no rows, a logged-in account, or
\* two local ids logged in to the same remote account (connect lets a
\* second local id bind a twid that is already bound, so earlier runs can
\* have persisted that).  Every remote account's puppet starts with a
\* real-user binding (logout releases it).
LoggedInRow == Row(AccountOf(1), 1, 1, None)

InitTables ==
    {[m \in Mxids |-> NoRow],
     [m \in Mxids |-> IF m = 1 THEN LoggedInRow ELSE NoRow],
     [m \in Mxids |-> LoggedInRow]}

Init ==
    /\ users = <<>>
    /\ by_mxid = [m \in Mxids |-> None]
    /\ by_twid = [r \in Twids |-> None]
    /\ db \in InitTables
    /\ clients = <<>>
    /\ puppets = [r \in Twids |-> TRUE]
    /\ tasks = EmptyBag
    /\ last = Outcome("none", None, None, "")
    /\ calls = 0
    /\ hist = <<>>
    /\ ever_bound = {db[m].twid : m \in Mxids} \ {None}
    /\ portals = [c \in Convs |-> NewPortal]
    /\ boot = {}

\* ------------------------------------------------------- database getters

\* User._add_to_cache (lines 163-166) for object o with fields u.
AddToCacheMxid(u, o) == [by_mxid EXCEPT ![u.mxid] = o]

AddToCacheTwid(u, o) ==
    IF u.twid # None THEN [by_twid EXCEPT ![u.twid] = o] ELSE by_twid

\* get_by_mxid, lines 170-175: a cache hit returns the cached object; a miss
\* issues DBUser.get_by_mxid and suspends.
GetByMxidCall(m, create) ==
    /\ Free
    /\ IF by_mxid[m] # None
       THEN /\ Return("get_by_mxid", None, by_mxid[m])
            /\ hist' = [hist EXCEPT ![by_mxid[m]].returned = TRUE]
       ELSE /\ Start([Task("get_by_mxid", "gbm_select") EXCEPT
                        !.mxid = m, !.create = create, !.row = db[m]])
            /\ UNCHANGED hist
    /\ UNCHANGED <<users, by_mxid, by_twid, db, clients, puppets, ever_bound, portals, boot>>

\* get_by_mxid, lines 176-186, resumed with the row the SELECT found.  A found
\* row becomes a new object, cached and returned.  Otherwise, with create, the
\* INSERT is issued (mxid is the table's key: a second row is refused);
\* without create the answer is None.
GetByMxidSelected(k) ==
    LET o == Len(users) + 1
        u == NewUser(k.mxid, k.row)
    IN  /\ k.pc = "gbm_select"
        /\ IF k.row.exists
           THEN /\ users' = Append(users, u)
                /\ hist' = Append(hist, NewHist(TRUE))
                /\ by_mxid' = AddToCacheMxid(u, o)
                /\ by_twid' = AddToCacheTwid(u, o)
                /\ Finish(k, Outcome("get_by_mxid", None, o, ""))
                /\ UNCHANGED db
           ELSE IF k.create
           THEN /\ IF db[k.mxid].exists
                   THEN /\ Finish(k, Outcome("get_by_mxid", None, None, "UniqueViolation"))
                        /\ UNCHANGED db
                   ELSE /\ db' = [db EXCEPT ![k.mxid] = Row(None, None, None, None)]
                        /\ Suspend(k, [k EXCEPT !.pc = "gbm_insert"])
                /\ UNCHANGED <<users, hist, by_mxid, by_twid>>
           ELSE /\ Finish(k, Outcome("get_by_mxid", None, None, ""))
                /\ UNCHANGED <<users, hist, by_mxid, by_twid, db>>
        /\ UNCHANGED <<clients, puppets, ever_bound, portals, boot>>

\* get_by_mxid, lines 183-184, resumed after the INSERT: cache and return the
\* object built at line 181.
GetByMxidInserted(k) ==
    LET o == Len(users) + 1
        u == NewUser(k.mxid, NoRow)
    IN  /\ k.pc = "gbm_insert"
        /\ users' = Append(users, u)
        /\ hist' = Append(hist, NewHist(TRUE))
        /\ by_mxid' = AddToCacheMxid(u, o)
        /\ by_twid' = AddToCacheTwid(u, o)
        /\ Finish(k, Outcome("get_by_mxid", None, o, ""))
        /\ UNCHANGED <<db, clients, puppets, ever_bound, portals, boot>>

\* DBUser.get_by_twid: the rows whose twid column is the one asked for.
RowsByTwid(r) == {m \in Mxids : db[m].exists /\ db[m].twid = r}

\* get_by_twid, lines 190-195: a cache hit returns the cached object; a miss
\* issues DBUser.get_by_twid (which of several matching rows it fetches is
\* the database's choice) and suspends.
GetByTwidCall(r) ==
    /\ Free
    /\ IF by_twid[r] # None
       THEN Return("get_by_twid", None, by_twid[r])
       ELSE \E m \in RowsByTwid(r) \cup {None} :
               /\ (m = None) <=> (RowsByTwid(r) = {})
               /\ Start([Task("get_by_twid", "gbt_select") EXCEPT
                           !.twid = r, !.mxid = m,
                           !.row = IF m = None THEN NoRow ELSE db[m]])
    /\ UNCHANGED <<users, by_mxid, by_twid, db, clients, puppets, hist, ever_bound, portals, boot>>

\* get_by_twid, lines 196-200, resumed with the row the SELECT found, if any:
\* a found row becomes a new object, cached under both keys and returned.
GetByTwidSelected(k) ==
    LET o == Len(users) + 1
        u == NewUser(k.mxid, k.row)
    IN  /\ k.pc = "gbt_select"
        /\ IF k.row.exists
           THEN /\ users' = Append(users, u)
                /\ hist' = Append(hist, NewHist(FALSE))
                /\ by_mxid' = AddToCacheMxid(u, o)
                /\ by_twid' = AddToCacheTwid(u, o)
                /\ Finish(k, Outcome("get_by_twid", None, o, ""))
           ELSE /\ Finish(k, Outcome("get_by_twid", None, None, ""))
                /\ UNCHANGED <<users, hist, by_mxid, by_twid>>
        /\ UNCHANGED <<db, clients, puppets, ever_bound, portals, boot>>

\* DBUser.all_logged_in: the rows that hold credentials.
HasCredentials(row) ==
    row.exists /\ row.auth_token # None /\ row.csrf_token # None

\* all_logged_in, line 204: issue the SELECT and suspend.
AllLoggedInCall ==
    /\ Free
    /\ Start([Task("all_logged_in", "ali_select") EXCEPT
                !.rows = [m \in Mxids |-> IF HasCredentials(db[m]) THEN db[m] ELSE NoRow]])
    /\ UNCHANGED <<users, by_mxid, by_twid, db, clients, puppets, hist, ever_bound, portals, boot>>

\* The orders in which the rows of a SELECT can come back.
Orders(S) ==
    {s \in [1..Cardinality(S) -> S] : \A i, j \in 1..Cardinality(S) : s[i] = s[j] => i = j}

\* all_logged_in, lines 206-210: the loop over the fetched rows, in order.
\* st carries the objects, both caches and the list being returned.
RECURSIVE AllLoggedInLoop(_, _, _)
AllLoggedInLoop(ord, rows, st) ==
    IF ord = <<>> THEN st
    ELSE LET m == Head(ord)
             o == Len(st.users) + 1
             u == NewUser(m, rows[m])
         IN  IF st.by_mxid[m] # None
             THEN AllLoggedInLoop(Tail(ord), rows,
                      [st EXCEPT !.out = @ \cup {st.by_mxid[m]}])
             ELSE AllLoggedInLoop(Tail(ord), rows,
                      [users |-> Append(st.users, u),
                       by_mxid |-> [st.by_mxid EXCEPT ![m] = o],
                       by_twid |-> IF u.twid # None
                                   THEN [st.by_twid EXCEPT ![u.twid] = o]
                                   ELSE st.by_twid,
                       out |-> st.out \cup {o}])

\* all_logged_in, lines 205-211, resumed with the fetched rows.  When init_cls
\* made the call, it goes on at line 67 without another await and makes a
\* try_connect coroutine for every object of the list.
AllLoggedInSelected(k) ==
    LET sel == {m \in Mxids : k.rows[m].exists}
    IN  /\ k.pc = "ali_select"
        /\ \E ord \in Orders(sel) :
              LET st == AllLoggedInLoop(ord, k.rows,
                            [users |-> users, by_mxid |-> by_mxid,
                             by_twid |-> by_twid, out |-> {}])
              IN  /\ users' = st.users
                  /\ by_mxid' = st.by_mxid
                  /\ by_twid' = st.by_twid
                  /\ hist' = hist \o [i \in 1..(Len(st.users) - Len(users)) |-> NewHist(FALSE)]
                  /\ boot' = IF k.op = "init_cls" THEN boot \cup st.out ELSE boot
                  /\ Finish(k, [Outcome(k.op, None, None, "") EXCEPT !.rets = st.out])
        /\ UNCHANGED <<db, clients, puppets, ever_bound, portals>>

\* ---------------------------------------------------- connection management

\* User.update, lines 70-72: with a client, its tokens and cursor are copied
\* into the object before the row is written.
UpdateFields(u) ==
    IF u.client # None
    THEN [u EXCEPT !.auth_token = clients[u.client].auth_token,
                   !.csrf_token = clients[u.client].csrf_token,
                   !.poll_cursor = clients[u.client].poll_cursor]
    ELSE u

\* DBUser.update, line 73: the row the UPDATE writes.
RowOf(u) == Row(u.twid, u.auth_token, u.csrf_token, u.poll_cursor)

\* User.update on object o, whose fields are us[o] just before the call: the
\* fields are refreshed, and the UPDATE either is applied (ok) or fails and
\* leaves the table as it was.
Update(us, o, ok) ==
    LET u == UpdateFields(us[o])
    IN  /\ users' = [us EXCEPT ![o] = u]
        /\ hist' = [hist EXCEPT ![o].cleared = @ /\ u.auth_token = None]
        /\ db' = IF ok /\ db[u.mxid].exists
                 THEN [db EXCEPT ![u.mxid] = RowOf(u)]
                 ELSE db

\* is_logged_in, lines 77-81: false without a client; with one, whether a
\* fresh identity probe on it succeeds (probe: the remote service answers).
IsLoggedIn(o, probe) ==
    /\ users[o].client # None
    /\ probe
    /\ TokensValid(clients[users[o].client].auth_token,
                   clients[users[o].client].csrf_token)

\* connect, lines 91-97: build the client from the stored cursor and the
\* given or stored tokens, and issue the identity probe.
ConnectCall(o, tok) ==
    /\ Free
    /\ Start([Task("connect", "connect_probe") EXCEPT
                !.self = o,
                !.auth = IF tok # None THEN tok ELSE users[o].auth_token,
                !.csrf = IF tok # None THEN tok ELSE users[o].csrf_token,
                !.cursor = users[o].poll_cursor])
    /\ UNCHANGED <<users, by_mxid, by_twid, db, clients, puppets, hist, ever_bound, portals, boot>>

\* A connect that assigns self.client before awaiting the probe: the failed
\* probe then leaves the unverified client installed.
ConnectProbeFailedInstalled(k) ==
    /\ k.pc = "connect_probe"
    /\ clients' = Append(clients, NewClient(k.auth, k.csrf, k.cursor))
    /\ users' = [users EXCEPT ![k.self].client = Len(clients) + 1]
    /\ Finish(k, Outcome("connect", k.self, None, "AuthError"))
    /\ UNCHANGED <<by_mxid, by_twid, db, puppets, hist, ever_bound, portals, boot>>

\* connect, line 97, the probe raises: the exception leaves connect before
\* anything is assigned.
ConnectProbeFailed(k) ==
    /\ k.pc = "connect_probe"
    /\ Finish(k, Outcome("connect", k.self, None, "AuthError"))
    /\ UNCHANGED <<users, by_mxid, by_twid, db, clients, puppets, hist, ever_bound, portals, boot>>

\* connect, lines 97-106, the probe succeeds: the client is installed on the
\* object with the five handlers, and get_settings is issued on it.
ConnectProbed(k) ==
    LET c == Len(clients) + 1
    IN  /\ k.pc = "connect_probe"
        /\ TokensValid(k.auth, k.csrf)
        /\ clients' = Append(clients, NewClient(k.auth, k.csrf, k.cursor))
        /\ users' = [users EXCEPT ![k.self].client = c]
        /\ Suspend(k, [k EXCEPT !.pc = "connect_settings", !.client = c])
        /\ UNCHANGED <<by_mxid, by_twid, db, puppets, hist, ever_bound, portals, boot>>

\* connect, line 106 raises (get_settings fails).
ConnectSettingsFailed(k) ==
    /\ k.pc = "connect_settings"
    /\ Finish(k, Outcome("connect", k.self, None, "SettingsError"))
    /\ UNCHANGED <<users, by_mxid, by_twid, db, clients, puppets, hist, ever_bound, portals, boot>>

\* connect, lines 107-114, resumed with the settings of the account the
\* probed client is logged in as.  Without a twid, lookup_users is issued on
\* self.client (an AttributeError when a logout has set it to None in the
\* meantime); with one, update() is called.
ConnectSettings(k, ok) ==
    LET o == k.self
        name == AccountOf(clients[k.client].auth_token)
        us == [users EXCEPT ![o].username = name]
    IN  /\ k.pc = "connect_settings"
        /\ IF users[o].twid = None
           THEN /\ users' = us
                /\ IF users[o].client = None
                   THEN Finish(k, Outcome("connect", o, None, "AttributeError"))
                   ELSE Suspend(k, [k EXCEPT !.pc = "connect_lookup", !.twid = name])
                /\ UNCHANGED <<db, hist>>
           ELSE /\ Update(us, o, ok)
                /\ Suspend(k, [k EXCEPT !.pc = "connect_update", !.ok = ok])
        /\ UNCHANGED <<by_mxid, by_twid, clients, puppets, ever_bound, portals, boot>>

\* connect, line 110 raises (lookup_users fails).
ConnectLookupFailed(k) ==
    /\ k.pc = "connect_lookup"
    /\ Finish(k, Outcome("connect", k.self, None, "LookupError"))
    /\ UNCHANGED <<users, by_mxid, by_twid, db, clients, puppets, hist, ever_bound, portals, boot>>

\* connect, lines 111-114, resumed with the looked-up user: bind the twid,
\* enter the object in by_twid and call update().
ConnectLookedUp(k, ok) ==
    LET o == k.self
        us == [users EXCEPT ![o].twid = k.twid]
    IN  /\ k.pc = "connect_lookup"
        /\ by_twid' = [by_twid EXCEPT ![k.twid] = o]
        /\ Update(us, o, ok)
        /\ Suspend(k, [k EXCEPT !.pc = "connect_update", !.ok = ok])
        /\ UNCHANGED <<by_mxid, clients, puppets, ever_bound, portals, boot>>

\* connect, lines 114-115, resumed from update(): its failure leaves connect;
\* otherwise self.client is started (an AttributeError when it is None).
ConnectUpdated(k) ==
    LET o == k.self
        c == users[o].client
    IN  /\ k.pc = "connect_update"
        /\ IF ~k.ok
           THEN /\ Finish(k, Outcome("connect", o, None, "PersistError"))
                /\ UNCHANGED <<clients, ever_bound>>
           ELSE IF c = None
           THEN /\ Finish(k, Outcome("connect", o, None, "AttributeError"))
                /\ UNCHANGED <<clients, ever_bound>>
           ELSE /\ clients' = [clients EXCEPT ![c].status = "started"]
                /\ ever_bound' = ever_bound \cup ({users[o].twid} \ {None})
                /\ Finish(k, Outcome("connect", o, users[o].twid, ""))
        /\ UNCHANGED <<users, by_mxid, by_twid, db, puppets, hist, portals, boot>>

\* TwitterAPI.stop as called at lines 119 and 124, on the client c if any.
StopClient(cs, c) == IF c # None THEN [cs EXCEPT ![c].status = "stopped"] ELSE cs

\* stop, lines 118-120: stop the client if there is one, then call update().
StopCall(o, ok) ==
    /\ Free
    /\ clients' = StopClient(clients, users[o].client)
    /\ Update(users, o, ok)
    /\ Start([Task("stop", "stop_update") EXCEPT
                !.self = o, !.client = users[o].client, !.ok = ok])
    /\ UNCHANGED <<by_mxid, by_twid, puppets, ever_bound, portals, boot>>

\* stop, line 120, resumed from update().
StopUpdated(k) ==
    /\ k.pc = "stop_update"
    /\ Finish(k, Outcome("stop", k.self, k.client, IF k.ok THEN "" ELSE "PersistError"))
    /\ UNCHANGED <<users, by_mxid, by_twid, db, clients, puppets, hist, ever_bound, portals, boot>>

\* logout, lines 123-125: stop the client if there is one, then ask for the
\* puppet of self.twid.
LogoutCall(o) ==
    /\ Free
    /\ clients' = StopClient(clients, users[o].client)
    /\ Start([Task("logout", "logout_puppet") EXCEPT
                !.self = o, !.twid = users[o].twid])
    /\ UNCHANGED <<users, by_mxid, by_twid, db, puppets, hist, ever_bound, portals, boot>>

\* A logout that leaves the by_twid entry in place when it clears the fields.
DelByTwidSkipped(bt, r) == bt

\* logout, lines 128-131: `del self.by_twid[self.twid]`; the KeyError of a
\* missing key (None included) is swallowed.
DelByTwid(bt, r) == IF r # None THEN [bt EXCEPT ![r] = None] ELSE bt

\* logout, lines 128-137: drop the by_twid entry of self.twid (a missing one
\* is tolerated), clear the fields and call update().  The task keeps the
\* twid it unbound.
LogoutClear(k, ok) ==
    LET o == k.self
        r == users[o].twid
        us == [users EXCEPT ![o].client = None, ![o].twid = None,
                            ![o].poll_cursor = None, ![o].auth_token = None,
                            ![o].csrf_token = None]
    IN  /\ by_twid' = DelByTwid(by_twid, r)
        /\ users' = [us EXCEPT ![o] = UpdateFields(us[o])]
        /\ hist' = [hist EXCEPT ![o].cleared = TRUE]
        /\ db' = IF ok /\ db[us[o].mxid].exists
                 THEN [db EXCEPT ![us[o].mxid] = RowOf(us[o])]
                 ELSE db
        /\ Suspend(k, [k EXCEPT !.pc = "logout_update", !.twid = r, !.ok = ok])

\* A logout that clears its local state without asking the puppet to release
\* the binding first.
LogoutPuppetSkipped(k, rel, ok) ==
    /\ k.pc = "logout_puppet"
    /\ LogoutClear(k, ok)
    /\ UNCHANGED <<by_mxid, clients, puppets, ever_bound, portals, boot>>

\* logout, lines 126-127, resumed with the puppet: a real-user puppet is
\* asked to switch_mxid(None, None), which releases the binding when it
\* succeeds (rel); any other puppet, or none, goes on to lines 128-137.
LogoutPuppet(k, rel, ok) ==
    /\ k.pc = "logout_puppet"
    /\ IF k.twid # None /\ puppets[k.twid]
       THEN /\ puppets' = [puppets EXCEPT ![k.twid] = ~rel]
            /\ Suspend(k, [k EXCEPT !.pc = "logout_switch", !.ok = rel])
            /\ UNCHANGED <<users, by_twid, db, hist>>
       ELSE /\ LogoutClear(k, ok)
            /\ UNCHANGED puppets
    /\ UNCHANGED <<by_mxid, clients, ever_bound, portals, boot>>

\* logout, line 127 raises (switch_mxid fails): nothing catches it.
LogoutSwitchFailed(k) ==
    /\ k.pc = "logout_switch"
    /\ ~k.ok
    /\ Finish(k, Outcome("logout", k.self, k.twid, "SwitchError"))
    /\ UNCHANGED <<users, by_mxid, by_twid, db, clients, puppets, hist, ever_bound, portals, boot>>

\* logout, lines 127-137, resumed from a successful switch_mxid.
LogoutSwitched(k, ok) ==
    /\ k.pc = "logout_switch"
    /\ k.ok
    /\ LogoutClear(k, ok)
    /\ UNCHANGED <<by_mxid, clients, puppets, ever_bound, portals, boot>>

\* logout, line 137, resumed from update().
LogoutUpdated(k) ==
    /\ k.pc = "logout_update"
    /\ Finish(k, Outcome("logout", k.self, k.twid, IF k.ok THEN "" ELSE "PersistError"))
    /\ UNCHANGED <<users, by_mxid, by_twid, db, clients, puppets, hist, ever_bound, portals, boot>>

\* A started client's poll round: it advances its cursor.
ClientPoll(c) ==
    /\ clients[c].status = "started"
    /\ calls < MaxCalls
    /\ calls' = calls + 1
    /\ clients' = [clients EXCEPT ![c].poll_cursor = @ + 1]
    /\ UNCHANGED <<users, by_mxid, by_twid, db, puppets, tasks, last, hist, ever_bound, portals, boot>>

\* ------------------------------------------------------------------ startup

\* init_cls, line 67: call all_logged_in, which issues its SELECT and suspends.
InitClsCall ==
    /\ Free
    /\ Start([Task("init_cls", "ali_select") EXCEPT
                !.rows = [m \in Mxids |-> IF HasCredentials(db[m]) THEN db[m] ELSE NoRow]])
    /\ UNCHANGED <<users, by_mxid, by_twid, db, clients, puppets, hist, ever_bound,
                   portals, boot>>

\* The bridge starts one of the try_connect coroutines init_cls returned.
\* try_connect, lines 84-85: connect() with the stored tokens, up to the probe.
TryConnectCall(o) ==
    /\ Free
    /\ o \in boot
    /\ boot' = boot \ {o}
    /\ Start([Task("connect", "connect_probe") EXCEPT
                !.self = o, !.try = TRUE,
                !.auth = users[o].auth_token,
                !.csrf = users[o].csrf_token,
                !.cursor = users[o].poll_cursor])
    /\ UNCHANGED <<users, by_mxid, by_twid, db, clients, puppets, hist, ever_bound, portals>>

\* --------------------------------------------------------- event handlers

\* The client c dispatches a MessageEntry of conversation conv with request
\* id q to the handle_message that connect registered on it for object o
\* (line 102).  handle_message, lines 151-152: ask for the portal and
\* suspend.  A client dispatches the next event once the handler of the
\* previous one is suspended.
HandleMessageCall(o, c, conv, q) ==
    /\ Free
    /\ users[o].client = c
    /\ clients[c].status = "started"
    /\ "MessageEntry" \in clients[c].handlers
    /\ Start([Task("handle_message", "hm_resolve") EXCEPT
                !.self = o, !.twid = users[o].twid, !.conv = conv, !.req = q])
    /\ UNCHANGED <<users, by_mxid, by_twid, db, clients, puppets, hist, ever_bound,
                   portals, boot>>

\* Portal.handle_twitter_message as line 155 calls it: the portal is handed
\* the message with the request id q.
HandleTwitterMessage(ps, conv, q) == [ps EXCEPT ![conv].handled[q] = @ + 1]

\* Portal.create_matrix_room as line 154 awaits it: when it returns, a room
\* has been made and the portal is bridged to it.
CreateMatrixRoom(ps, conv) ==
    [ps EXCEPT ![conv].rooms = @ + 1, ![conv].mxid = ps[conv].rooms + 1]

\* A handle_message that hands the message to the portal without looking at
\* portal.mxid.
HandleMessageResolvedUnchecked(k) ==
    /\ k.pc = "hm_resolve"
    /\ portals' = HandleTwitterMessage(portals, k.conv, k.req)
    /\ Suspend(k, [k EXCEPT !.pc = "hm_forward"])
    /\ UNCHANGED <<users, by_mxid, by_twid, db, clients, puppets, hist, ever_bound, boot>>

\* handle_message, lines 153-155, resumed with the portal: without a room,
\* create_matrix_room is awaited; with one, the message is handed over.
HandleMessageResolved(k) ==
    /\ k.pc = "hm_resolve"
    /\ IF portals[k.conv].mxid = None
       THEN /\ Suspend(k, [k EXCEPT !.pc = "hm_create"])
            /\ UNCHANGED portals
       ELSE /\ portals' = HandleTwitterMessage(portals, k.conv, k.req)
            /\ Suspend(k, [k EXCEPT !.pc = "hm_forward"])
    /\ UNCHANGED <<users, by_mxid, by_twid, db, clients, puppets, hist, ever_bound, boot>>

\* handle_message, lines 154-155, resumed from create_matrix_room: the
\* message is handed over.
HandleMessageCreated(k) ==
    /\ k.pc = "hm_create"
    /\ portals' = HandleTwitterMessage(CreateMatrixRoom(portals, k.conv), k.conv, k.req)
    /\ Suspend(k, [k EXCEPT !.pc = "hm_forward"])
    /\ UNCHANGED <<users, by_mxid, by_twid, db, clients, puppets, hist, ever_bound, boot>>

\* handle_message, line 155, resumed from handle_twitter_message: return.
HandleMessageForwarded(k) ==
    /\ k.pc = "hm_forward"
    /\ Finish(k, Outcome("handle_message", k.self, None, ""))
    /\ UNCHANGED <<users, by_mxid, by_twid, db, clients, puppets, hist, ever_bound,
                   portals, boot>>

\* ------------------------------------------------------------------- Next

Next ==
    \/ \E m \in Mxids, create \in BOOLEAN : GetByMxidCall(m, create)
    \/ \E k \in Running : GetByMxidSelected(k)
    \/ \E k \in Running : GetByMxidInserted(k)
    \/ \E r \in Twids : GetByTwidCall(r)
    \/ \E k \in Running : GetByTwidSelected(k)
    \/ AllLoggedInCall
    \/ \E k \in Running : AllLoggedInSelected(k)
    \/ \E o \in ObjIds, tok \in Tokens \cup {None} : ConnectCall(o, tok)
    \/ \E k \in Running : ConnectProbeFailed(k)
    \/ \E k \in Running : ConnectProbed(k)
    \/ \E k \in Running : ConnectSettingsFailed(k)
    \/ \E k \in Running, ok \in BOOLEAN : ConnectSettings(k, ok)
    \/ \E k \in Running : ConnectLookupFailed(k)
    \/ \E k \in Running, ok \in BOOLEAN : ConnectLookedUp(k, ok)
    \/ \E k \in Running : ConnectUpdated(k)
    \/ \E o \in ObjIds, ok \in BOOLEAN : StopCall(o, ok)
    \/ \E k \in Running : StopUpdated(k)
    \/ \E o \in ObjIds : LogoutCall(o)
    \/ \E k \in Running, rel \in BOOLEAN, ok \in BOOLEAN : LogoutPuppet(k, rel, ok)
    \/ \E k \in Running : LogoutSwitchFailed(k)
    \/ \E k \in Running, ok \in BOOLEAN : LogoutSwitched(k, ok)
    \/ \E k \in Running : LogoutUpdated(k)
    \/ \E c \in 1..Len(clients) : ClientPoll(c)

Spec == Init /\ [][Next]_vars

\* The dispatch of message events on a connected object: the state after
\* get_by_mxid(1) and connect() on a table with a logged-in row, which Spec
\* reaches (Connected), with the call budget restarted.
Connected ==
    /\ users = <<[NewUser(1, LoggedInRow) EXCEPT !.client = 1, !.username = AccountOf(1)]>>
    /\ by_mxid = [m \in Mxids |-> IF m = 1 THEN 1 ELSE None]
    /\ by_twid = [r \in Twids |-> IF r = AccountOf(1) THEN 1 ELSE None]
    /\ db = [m \in Mxids |-> IF m = 1 THEN LoggedInRow ELSE NoRow]
    /\ clients = <<[NewClient(1, 1, None) EXCEPT !.status = "started"]>>
    /\ puppets = [r \in Twids |-> TRUE]
    /\ tasks = EmptyBag
    /\ last = Outcome("connect", 1, AccountOf(1), "")
    /\ hist = <<NewHist(TRUE)>>
    /\ ever_bound = {AccountOf(1)}
    /\ portals = [c \in Convs |-> NewPortal]
    /\ boot = {}

\* The bridge's startup: init_cls on the table earlier runs left, and the
\* try_connect coroutines it returns.  Besides the tables of Init, an earlier
\* run can have left credentials without a twid (a connect whose lookup
\* failed, then stop(), whose update() persists the client's tokens).
UnboundRow == Row(None, 1, 1, None)

StartupTables ==
    InitTables \cup {[m \in Mxids |-> IF m = 1 THEN UnboundRow ELSE LoggedInRow]}

InitStartup ==
    /\ users = <<>>
    /\ by_mxid = [m \in Mxids |-> None]
    /\ by_twid = [r \in Twids |-> None]
    /\ db \in StartupTables
    /\ clients = <<>>
    /\ puppets = [r \in Twids |-> TRUE]
    /\ tasks = EmptyBag
    /\ last = Outcome("none", None, None, "")
    /\ calls = 0
    /\ hist = <<>>
    /\ ever_bound = {db[m].twid : m \in Mxids} \ {None}
    /\ portals = [c \in Convs |-> NewPortal]
    /\ boot = {}

NextStartup ==
    \/ InitClsCall
    \/ \E k \in Running : AllLoggedInSelected(k)
    \/ \E o \in ObjIds : TryConnectCall(o)
    \/ \E k \in Running : ConnectProbeFailed(k)
    \/ \E k \in Running : ConnectProbed(k)
    \/ \E k \in Running : ConnectSettingsFailed(k)
    \/ \E k \in Running, ok \in BOOLEAN : ConnectSettings(k, ok)
    \/ \E k \in Running : ConnectLookupFailed(k)
    \/ \E k \in Running, ok \in BOOLEAN : ConnectLookedUp(k, ok)
    \/ \E k \in Running : ConnectUpdated(k)

SpecStartup == InitStartup /\ [][NextStartup]_vars

InitDispatch == Connected /\ calls = 0

NextDispatch ==
    \/ \E o \in ObjIds, c \in 1..Len(clients), conv \in Convs, q \in Reqs :
          HandleMessageCall(o, c, conv, q)
    \/ \E k \in Running : HandleMessageResolved(k)
    \/ \E k \in Running : HandleMessageCreated(k)
    \/ \E k \in Running : HandleMessageForwarded(k)

SpecDispatch == InitDispatch /\ [][NextDispatch]_vars

\* ----------------------------------------------------------------- claims

\* The step in which the suspended coroutine k ends (returns or raises).
Ends(k) == tasks' = tasks (-) SetToBag({k})

\* The step in which the suspended coroutine k runs on to its next await or
\* to its end.
Steps(k) == CopiesIn(k, tasks') < CopiesIn(k, tasks)

\* C1: every get_by_mxid call for one mxid returns the identical object: no
\* two distinct objects that get_by_mxid has returned carry the same mxid.
C1_SameSessionPerMxid ==
    \A o1, o2 \in ObjIds :
        (hist[o1].returned /\ hist[o2].returned /\ users[o1].mxid = users[o2].mxid)
            => o1 = o2

\* Both caches resolve to object o: by_twid under its twid, by_mxid under its
\* mxid (a cache hit of get_by_twid / get_by_mxid returns exactly these).
ResolvesTo(o) ==
    /\ users[o].twid # None
    /\ by_twid[users[o].twid] = o
    /\ by_mxid[users[o].mxid] = o

\* C2: when a connect on s returns successfully, get_by_twid of its twid and
\* get_by_mxid of its mxid both resolve to s.
C2_ConnectedResolvesToSelf ==
    [][\A k \in Running :
          (k.pc = "connect_update" /\ Ends(k) /\ last'.err = "")
              => ResolvesTo(k.self)']_vars

\* get_by_twid(r) answers not-found: no cache entry and no row to load.
NotFoundByTwid(r) == by_twid[r] = None /\ RowsByTwid(r) = {}

\* C3: when the logout of a session bound to twid r returns, is_logged_in is
\* false on it whatever the probe answers, and get_by_twid(r) is not-found.
C3_LoggedOutIsGone ==
    [][\A k \in Running :
          (k.pc = "logout_update" /\ k.ok /\ k.twid # None /\ Ends(k))
              => (~IsLoggedIn(k.self, TRUE) /\ NotFoundByTwid(k.twid))']_vars

\* C4: a connect that ends in failure leaves no by_twid entry for a twid that
\* no completed connect has bound.
C4_FailedConnectLeavesNoEntry ==
    [][\A k \in Running :
          (k.op = "connect" /\ Ends(k) /\ last'.err # "")
              => (\A r \in Twids : by_twid[r] = k.self => r \in ever_bound)']_vars

\* C5: a connect whose identity probe fails raises the probe's error, and
\* neither its call nor its failing resumption changes any object, either
\* cache, the table, any client or puppet.
C5_FailedProbeMutatesNothing ==
    [][/\ \A k \in Running :
             (k.pc = "connect_probe" /\ Ends(k))
                 => /\ last' = Outcome("connect", k.self, None, "AuthError")
                    /\ UNCHANGED <<users, by_mxid, by_twid, db, clients, puppets>>
       /\ \A k \in BagToSet(tasks') :
             (k.pc = "connect_probe" /\ tasks' = tasks (+) SetToBag({k}))
                 => UNCHANGED <<users, by_mxid, by_twid, db, clients, puppets>>
      ]_vars

\* C5 witness: a connect has just failed at its probe, on an object that has
\* no client installed.
C5_Witness ==
    /\ last.op = "connect"
    /\ last.err = "AuthError"
    /\ users[last.self].client = None

\* C6: no started client exists other than the one its User currently holds.
C6_OneLiveHandle ==
    \A c \in 1..Len(clients) :
        clients[c].status = "started" => \E o \in ObjIds : users[o].client = c

\* C7: when stop returns on a session that had a client c, c is stopped,
\* self.client is None, and the row holds the tokens and cursor of c.
C7_StopClearsHandle ==
    [][\A k \in Running :
          (k.pc = "stop_update" /\ k.ok /\ k.client # None /\ Ends(k))
              => /\ clients'[k.client].status = "stopped"
                 /\ users'[k.self].client = None
                 /\ db'[users[k.self].mxid].auth_token = clients[k.client].auth_token
                 /\ db'[users[k.self].mxid].csrf_token = clients[k.client].csrf_token
                 /\ db'[users[k.self].mxid].poll_cursor = clients[k.client].poll_cursor
      ]_vars

\* C8: stop on a session without a client does nothing: in particular it
\* never awaits an UPDATE of the row.
C8_StopWithoutHandleIsNoOp ==
    \A k \in Running : k.pc = "stop_update" => k.client # None

\* The in-memory state logout leaves on object o, formerly bound to twid r.
LoggedOutState(o, r) ==
    /\ users[o].client = None
    /\ users[o].twid = None
    /\ users[o].auth_token = None
    /\ users[o].csrf_token = None
    /\ users[o].poll_cursor = None
    /\ r # None => by_twid[r] # o

\* C9: a logout whose switch_mxid has failed still goes on to drop the
\* by_twid entry and clear the object.
C9_ReleaseFailureDoesNotBlock ==
    [][\A k \in Running :
          (k.pc = "logout_switch" /\ ~k.ok /\ Steps(k))
              => LoggedOutState(k.self, k.twid)']_vars

\* C10: the list all_logged_in returns holds no object whose credentials
\* logout has cleared.
C10_NoLoggedOutSession ==
    [][\A k \in Running :
          (k.pc = "ali_select" /\ Ends(k))
              => \A o \in last'.rets : ~hist'[o].cleared]_vars

\* C14: all_logged_in returns the cached object for every fetched row whose
\* mxid is cached when the loop runs, and leaves that cache entry alone; and
\* the object a scan has just returned for an mxid stays the only one cached
\* for it, also when a get_by_mxid of that mxid was suspended in its SELECT
\* while the scan ran.
C14_ScanKeepsOneSessionPerMxid ==
    [][/\ \A k \in Running :
             (k.pc = "ali_select" /\ Ends(k))
                 => \A m \in Mxids :
                       (k.rows[m].exists /\ by_mxid[m] # None)
                           => by_mxid[m] \in last'.rets /\ by_mxid'[m] = by_mxid[m]
       /\ \A o \in ObjIds :
             (last.op = "all_logged_in" /\ o \in last.rets /\ by_mxid[users[o].mxid] = o)
                 => by_mxid'[users[o].mxid] = o]_vars

\* C15: logout unbinds and clears in one step.  A step that clears the twid r
\* of an object leaves no by_twid entry for r, and a step of a logout of
\* object o that changes by_twid is the step that clears o's twid: no
\* suspended coroutine sees o half unbound.
C15_LogoutUnbindsAtomically ==
    [][\A o \in ObjIds :
          /\ (users[o].twid # None /\ users'[o].twid = None)
                => by_twid'[users[o].twid] = None
          /\ \A k \in Running :
                (k.op = "logout" /\ k.self = o /\ Steps(k) /\ by_twid' # by_twid)
                    => users[o].twid # None /\ users'[o].twid = None]_vars

\* A logout has unbound twid r of its object and is suspended in update().
C15_Witness ==
    \E k \in Running :
        /\ k.pc = "logout_update"
        /\ k.twid # None
        /\ users[k.self].twid = None
        /\ by_twid[k.twid] = None

\* C16: the twid of an object changes only from None (connect, line 111) or
\* to None (logout, line 133): no step replaces a bound twid by another one.
C16_TwidBoundOncePerLogin ==
    [][\A o \in ObjIds :
          users[o].twid # None => users'[o].twid \in {users[o].twid, None}]_vars

\* C17: a logout whose object's twid has a real-user puppet attempts the
\* release (switch_mxid) before it clears anything: the step that clears the
\* object's fields and by_twid entry is taken from the await of switch_mxid,
\* never straight from the puppet lookup.
C17_ReleaseBeforeClear ==
    [][\A k \in Running :
          (k.op = "logout" /\ Steps(k) /\ k.twid # None /\ puppets[k.twid]
             /\ k.pc = "logout_puppet")
              => /\ users'[k.self] = users[k.self]
                 /\ by_twid' = by_twid
                 /\ db' = db
                 /\ \E k2 \in BagToSet(tasks') : k2.pc = "logout_switch" /\ k2.self = k.self]_vars

\* A logout is suspended in switch_mxid with the object still bound.
C17_Witness ==
    \E k \in Running :
        /\ k.pc = "logout_switch"
        /\ users[k.self].twid = k.twid
        /\ by_twid[k.twid] = k.self

\* C18: at most one of connect, stop and logout is in progress on an object
\* at any time.
C18_LifecycleMutualExclusion ==
    \A k1, k2 \in Running :
        (/\ k1.op \in {"connect", "stop", "logout"}
         /\ k2.op \in {"connect", "stop", "logout"}
         /\ k1.self = k2.self)
            => k1 = k2 /\ CopiesIn(k1, tasks) = 1

\* C19: a connect that raises after its probe succeeded (from get_settings,
\* lookup_users or update) does not leave the client it built installed on
\* the object: the handle is the one from before the call, and is_logged_in
\* has not become true through the failed call's client.
C19_FailedConnectRestoresHandle ==
    [][\A k \in Running :
          (/\ k.op = "connect"
           /\ Ends(k)
           /\ last'.err \in {"SettingsError", "LookupError", "PersistError"})
              => users'[k.self].client # k.client]_vars

\* C20: a logout of object o leaves alone every by_twid entry that points to
\* another object.
C20_LogoutKeepsOtherEntries ==
    [][\A k \in Running :
          (k.op = "logout" /\ Steps(k))
              => \A r \in Twids :
                    (by_twid[r] # None /\ by_twid[r] # k.self) => by_twid'[r] = by_twid[r]]_vars

\* C11: no portal ever has more than one room made for it, whatever message
\* events are dispatched and however their handlers overlap.
C11_RoomCreatedAtMostOnce ==
    \A conv \in Convs : portals[conv].rooms <= 1

\* The step in which handle_message k calls portal.handle_twitter_message.
Forwards(k) ==
    /\ k.op = "handle_message"
    /\ Steps(k)
    /\ k.pc # "hm_forward"
    /\ CopiesIn([k EXCEPT !.pc = "hm_forward"], tasks')
          > CopiesIn([k EXCEPT !.pc = "hm_forward"], tasks)

C13_TryConnectSwallowsFailure ==
    [][\A k \in Running :
          /\ (k.op = "connect" /\ k.try /\ Ends(k))
                => /\ last' = Outcome("try_connect", k.self, None, "")
                   /\ boot' = boot
          /\ (k.op = "init_cls" /\ Ends(k))
                => last'.rets \subseteq boot']_vars

\* The try_connect of one account has ended after its connect failed, and
\* the try_connect of another account is still to be started.
C13_Witness ==
    /\ last.op = "try_connect"
    /\ users[last.self].client = None
    /\ boot # {}

====
